---- MODULE Spec2Model ----
(***************************************************************************)
(* Email scanner (src/app.py): the /email endpoint, the browser-driven     *)
(* scan get_email_info_from_page and the card extractor scrape_card_data.  *)
(*                                                                         *)
(* A Python str is a sequence of one-character strings, so that strip()    *)
(* and the substring tests of scrape_card_data are computed on characters. *)
(* Dictionary keys, exception messages and HTTP error texts are TLA+       *)
(* strings: the program only stores and returns them.                      *)
(***************************************************************************)
EXTENDS Integers, Sequences, FiniteSets, TLC

\* ------------------------------------------------------------------ bounds
\* Requests in flight at once under SpecConc.
NumScans == 2
\* Longest e-mail parameter enumerated character by character.
MaxEmailLen == 2
\* Most spans in one card container under SpecExtract.
MaxSpans == 2
\* Longest span text enumerated character by character under SpecExtract.
MaxTextLen == 1

Scans == 1..NumScans

\* --------------------------------------------------------------- strings
\* request.args.get('email') when the parameter is missing.
None == <<"None">>

Whitespace == {" ", "\t", "\n"}

\* str.strip(): drop leading, then trailing, whitespace.
RECURSIVE lstrip(_)
lstrip(s) ==
    IF s = <<>> THEN <<>>
    ELSE IF Head(s) \in Whitespace THEN lstrip(Tail(s)) ELSE s

RECURSIVE rstrip(_)
rstrip(s) ==
    IF s = <<>> THEN <<>>
    ELSE IF s[Len(s)] \in Whitespace THEN rstrip(SubSeq(s, 1, Len(s) - 1)) ELSE s

strip(s) == rstrip(lstrip(s))

\* The Python test `pat in s` on strings.
str_in(pat, s) ==
    \E i \in 1..(Len(s) - Len(pat) + 1) : SubSeq(s, i, i + Len(pat) - 1) = pat

\* dict assignment d[k] = v.
dict_set(d, k, v) == [x \in (DOMAIN d) \cup {k} |-> IF x = k THEN v ELSE d[x]]

EmptyDict == << >>

\* ------------------------------------------------------- cards_to_scrape
NoPattern == <<"N", "o", " ">>
LocatedPattern == <<" ", "L", "o", "c", "a", "t", "e", "d">>

cards_to_scrape == <<
    [key |-> "data_breaches", card_id |-> "breaches",
     card_title |-> <<"D", "A", "T", "A", " ", "B", "R", "E", "A", "C", "H", "E", "S">>],
    [key |-> "passwords", card_id |-> "passwords",
     card_title |-> <<"P", "A", "S", "S", "W", "O", "R", "D", "S">>],
    [key |-> "usernames", card_id |-> "usernames",
     card_title |-> <<"U", "S", "E", "R", "N", "A", "M", "E", "S">>],
    [key |-> "phone_numbers", card_id |-> "phoneNumbers",
     card_title |-> <<"P", "H", "O", "N", "E", " ", "N", "U", "M", "B", "E", "R", "S">>],
    [key |-> "ips", card_id |-> "ips",
     card_title |-> <<"I", "P", "S">>],
    [key |-> "related_emails", card_id |-> "relatedEmails",
     card_title |-> <<"R", "E", "L", "A", "T", "E", "D", " ", "E", "M", "A", "I", "L", "S">>],
    [key |-> "locations", card_id |-> "locations",
     card_title |-> <<"L", "O", "C", "A", "T", "I", "O", "N", "S">>],
    [key |-> "companies", card_id |-> "companies",
     card_title |-> <<"C", "O", "M", "P", "A", "N", "I", "E", "S">>]
>>

NumCards == Len(cards_to_scrape)
CardIds == {cards_to_scrape[i].card_id : i \in 1..NumCards}
SectionKeys == {cards_to_scrape[i].key : i \in 1..NumCards}

\* ------------------------------------------------------ scrape_card_data
\* A page maps every card id to [present, spans]: whether the container is in
\* the DOM and, in document order, the text of its span elements.
AbsentCard == [present |-> FALSE, spans |-> <<>>]
Card(spans) == [present |-> TRUE, spans |-> spans]

\* driver.find_element(By.ID, card_id): the container, or NoSuchElementException.
find_element(page, card_id) ==
    IF page[card_id].present
    THEN [exc |-> "none", spans |-> page[card_id].spans]
    ELSE [exc |-> "NoSuchElementException", spans |-> <<>>]

\* Faulty variant of keep_text: the " Located" test left out.
keep_text_no_located(text, card_title) ==
    /\ text # <<>>
    /\ text # card_title
    /\ ~ str_in(NoPattern, text)

\* The test of line 27 on the stripped text.
keep_text(text, card_title) ==
    /\ text # <<>>
    /\ text # card_title
    /\ ~ str_in(NoPattern, text)
    /\ ~ str_in(LocatedPattern, text)

\* The for loop of lines 25-28, from span i on, appending to results.
RECURSIVE scrape_loop(_, _, _, _)
scrape_loop(spans, i, card_title, results) ==
    IF i > Len(spans) THEN results
    ELSE LET text == strip(spans[i])
         IN  scrape_loop(spans, i + 1, card_title,
                         IF keep_text(text, card_title)
                         THEN Append(results, text) ELSE results)

\* Faulty variant of scrape_card_data: no except clause, NoSuchElementException leaves
\* the function.
scrape_card_data_uncaught(page, card_id, card_title) ==
    LET found == find_element(page, card_id)
    IN  [exc |-> found.exc,
         results |-> scrape_loop(found.spans, 1, card_title, <<>>)]

\* scrape_card_data: [exc, results]; exc is the exception that leaves the
\* function ("none" when it returns results).
scrape_card_data(page, card_id, card_title) ==
    LET found == find_element(page, card_id)
    IN  IF found.exc = "NoSuchElementException"
        THEN [exc |-> "none", results |-> <<>>]
        ELSE [exc |-> "none",
              results |-> scrape_loop(found.spans, 1, card_title, <<>>)]

\* ------------------------------------------------------------------ state
VARIABLES
    pc,          \* [scan -> where its request handler stands]
    args,        \* [scan -> the email parameter of its request, or None]
    email,       \* [scan -> scan_email's local email]
    driver,      \* [scan -> its local driver: a session id, 0 while unbound]
    final_data,  \* [scan -> the dict built by get_email_info_from_page]
    idx,         \* [scan -> position of the for loop over cards_to_scrape]
    response,    \* [scan -> the HTTP response sent, status 0 while none]
    raised,      \* [scan -> the exception raised in its handler, if any]
    sessions,    \* [session id -> the browser session, NoSession until launched]
    web,         \* [session id -> the results page the site serves it]
    xpc,         \* SpecExtract: "in" before the call, "out" after
    xcard,       \* SpecExtract: the arguments of scrape_card_data
    xout         \* SpecExtract: its return value

vars == <<pc, args, email, driver, final_data, idx, response, raised,
          sessions, web, xpc, xcard, xout>>
scan_vars == <<pc, args, email, driver, final_data, idx, response, raised,
               sessions, web>>
extract_vars == <<xpc, xcard, xout>>

\* --------------------------------------------------------------- inputs
Digit == <<"1", "2", "3", "4", "5", "6", "7", "8", "9">>

TestEmail == <<"t", "e", "s", "t", "@", "e", "x", "a", "m", "p", "l", "e", ".", "c", "o", "m">>
NotAnEmail == <<"n", "o", "t", "-", "a", "n", "-", "e", "m", "a", "i", "l">>
EmailAlphabet == {"a", "@", "."}

SeqsUpTo(A, n) == UNION {[1..k -> A] : k \in 0..n}

\* The values of the email parameter a request may carry.
EmailParams ==
    {None, TestEmail, NotAnEmail} \cup SeqsUpTo(EmailAlphabet, MaxEmailLen)

\* The e-mail of scan r when several scans run at once.
ConcEmail(r) == <<"u", Digit[r], "@", "x", ".", "y">>

\* The finding the site shows in a card of the page served to session s.
Finding(s) == <<"A", "c", "m", "e", " ", "C", "o", "r", "p", " ", "#", Digit[s]>>

TitleOf(card_id) ==
    cards_to_scrape[CHOOSE i \in 1..NumCards :
                        cards_to_scrape[i].card_id = card_id].card_title

\* The page of session s on which exactly the containers in P are present,
\* each holding its heading span and one finding.
PageOf(s, P) ==
    [c \in CardIds |->
        IF c \in P THEN Card(<<TitleOf(c), Finding(s)>>) ELSE AbsentCard]

BlankPage == [c \in CardIds |-> AbsentCard]

\* Span texts offered to scrape_card_data under SpecExtract.
TextPool(card_title) ==
    {card_title,
     <<" ">> \o card_title \o <<"\n">>,
     card_title \o <<" ", "x">>,
     <<"N", "o">>,
     <<"N", "o", " ", "x">>,
     <<"x", "N", "o", " ", " ", "x">>,
     <<" ", "L", "o", "c", "a", "t", "e", "d">>,
     <<"x", " ", "L", "o", "c", "a", "t", "e", "d", "\t">>,
     <<"\t", "x", " ", "x", " ", "\n">>}
    \cup SeqsUpTo({" ", "x"}, MaxTextLen)

\* Exceptions a driver call can end with: [exc, msg], msg being str(e).
NoExc == [exc |-> "none", msg |-> ""]
TimeoutExc == [exc |-> "TimeoutException", msg |-> "Message: "]
DriverErrors ==
    {[exc |-> "WebDriverException", msg |-> "Message: chrome not reachable"]}

\* A request launches at most one browser (lines 55-61), so a session is
\* named after the request that launches it; owner 0 means not launched.
NoSession == [owner |-> 0, alive |-> FALSE, log |-> <<>>]
Launched(ss) == {s \in DOMAIN ss : ss[s].owner # 0}

NoResponse == [status |-> 0, body |-> EmptyDict]
NotRaised == [where |-> "none", exc |-> "none", escaped |-> FALSE]

\* ------------------------------------------------------------------ Init
InitExtractIdle ==
    /\ xpc = "off"
    /\ xcard = [card_title |-> <<>>, present |-> FALSE, spans |-> <<>>]
    /\ xout = <<>>

InitScans(active) ==
    /\ pc = [r \in Scans |-> IF r \in active THEN "request" ELSE "off"]
    /\ email = [r \in Scans |-> None]
    /\ driver = [r \in Scans |-> 0]
    /\ final_data = [r \in Scans |-> EmptyDict]
    /\ idx = [r \in Scans |-> 0]
    /\ response = [r \in Scans |-> NoResponse]
    /\ raised = [r \in Scans |-> NotRaised]
    /\ sessions = [s \in Scans |-> NoSession]

\* One request, any parameter, any page.
Init ==
    /\ InitScans({1})
    /\ \E a \in EmailParams : args = [r \in Scans |-> IF r = 1 THEN a ELSE None]
    /\ \E P \in SUBSET CardIds :
           web = [s \in Scans |-> IF s = 1 THEN PageOf(s, P) ELSE BlankPage]
    /\ InitExtractIdle

\* NumScans well-formed requests at once, each session served its own page.
InitConc ==
    /\ InitScans(Scans)
    /\ args = [r \in Scans |-> ConcEmail(r)]
    /\ web = [s \in Scans |-> PageOf(s, CardIds)]
    /\ InitExtractIdle

\* One call of scrape_card_data on any card with up to MaxSpans spans.
InitExtract ==
    /\ InitScans({})
    /\ args = [r \in Scans |-> None]
    /\ web = [s \in Scans |-> BlankPage]
    /\ xpc = "in"
    /\ \E i \in 1..NumCards :
         LET title == cards_to_scrape[i].card_title
         IN  \E present \in BOOLEAN :
               \E spans \in SeqsUpTo(TextPool(title), IF present THEN MaxSpans ELSE 0) :
                 xcard = [card_title |-> title, present |-> present, spans |-> spans]
    /\ xout = <<>>

\* -------------------------------------------------------------- sessions
\* A session records who launched it and every driver call made on it, its
\* launch first: [op, by, exc], the operation, the calling scan and how the
\* call ended.
Launch(r) == [op |-> "Chrome", by |-> r, exc |-> "none"]
NewSession(r) == [owner |-> r, alive |-> TRUE, log |-> <<Launch(r)>>]

\* Faulty variant of Chrome: one module-level browser, launched once and handed to
\* every later scan.
Chrome_shared(r, ss) ==
    IF Launched(ss) = {}
    THEN [id |-> r, sessions |-> [ss EXCEPT ![r] = NewSession(r)]]
    ELSE [id |-> CHOOSE s \in Launched(ss) : TRUE, sessions |-> ss]

\* webdriver.Chrome(...): launches a browser and returns the new session's id.
Chrome(r, ss) ==
    [id |-> r,
     sessions |-> [ss EXCEPT ![r] =
                     [owner |-> r, alive |-> TRUE, log |-> Append(@.log, Launch(r))]]]

\* A driver call op by scan r on session s, ending with outcome o.
Call(ss, s, r, op, o) ==
    [ss EXCEPT ![s].log = Append(@, [op |-> op, by |-> r, exc |-> o.exc])]

\* driver.quit(): the call, and the browser process is gone.
Quit(ss, s, r) ==
    [Call(ss, s, r, "quit", NoExc) EXCEPT ![s].alive = FALSE]

\* ------------------------------------------------------------ scan_email
\* Faulty variant of validate: `if email is None` in place of `if not email`.
validate_none_only(e) ==
    IF e = None THEN "required"
    ELSE IF ~ str_in(<<"@">>, e) \/ ~ str_in(<<".">>, e) THEN "invalid"
    ELSE "ok"

\* Faulty variant of validate: `and` in place of `or` at line 113.
validate_and(e) ==
    IF e = None \/ e = <<>> THEN "required"
    ELSE IF ~ str_in(<<"@">>, e) /\ ~ str_in(<<".">>, e) THEN "invalid"
    ELSE "ok"

\* Lines 107-116: which answer the validation gives.
validate(e) ==
    IF e = None \/ e = <<>> THEN "required"
    ELSE IF ~ str_in(<<"@">>, e) \/ ~ str_in(<<".">>, e) THEN "invalid"
    ELSE "ok"

\* jsonify(body), status.
Respond(status, body) == [status |-> status, body |-> body]
ErrorBody(msg) == [k \in {"error"} |-> msg]

\* Lines 105-116: read the parameter, validate, answer 400 or go on to the scan.
ScanEmail(r) ==
    /\ pc[r] = "request"
    /\ email' = [email EXCEPT ![r] = args[r]]
    /\ LET v == validate(args[r])
       IN  /\ pc' = [pc EXCEPT ![r] = IF v = "ok" THEN "acquire" ELSE "done"]
           /\ response' = [response EXCEPT ![r] =
                 IF v = "required"
                 THEN Respond(400, ErrorBody("Email parameter is required"))
                 ELSE IF v = "invalid"
                 THEN Respond(400, ErrorBody("Invalid email format"))
                 ELSE @]
    /\ UNCHANGED <<args, driver, final_data, idx, raised, sessions, web>>
    /\ UNCHANGED extract_vars

\* An exception leaving get_email_info_from_page: lines 123-126 answer 500.
Escapes(r, where, o) ==
    /\ raised' = [raised EXCEPT ![r] =
                    [where |-> where, exc |-> o.exc, escaped |-> TRUE]]
    /\ response' = [response EXCEPT ![r] =
                      Respond(500, ErrorBody("An error occurred: " \o o.msg))]
    /\ pc' = [pc EXCEPT ![r] = "done"]

\* Lines 35-61: options, executable paths, webdriver.Chrome.
Acquire(r) ==
    /\ pc[r] = "acquire"
    /\ \E o \in {NoExc} \cup DriverErrors :
         IF o.exc = "none"
         THEN LET c == Chrome(r, sessions)
              IN  /\ sessions' = c.sessions
                  /\ driver' = [driver EXCEPT ![r] = c.id]
                  /\ pc' = [pc EXCEPT ![r] = "patch"]
                  /\ UNCHANGED <<raised, response>>
         ELSE /\ Escapes(r, "acquire", o)
              /\ UNCHANGED <<sessions, driver>>
    /\ UNCHANGED <<args, email, final_data, idx, web>>
    /\ UNCHANGED extract_vars

\* Lines 62-64: the navigator patch, outside the try; then final_data = {}.
Patch(r) ==
    /\ pc[r] = "patch"
    /\ \E o \in {NoExc} \cup DriverErrors :
         /\ sessions' = Call(sessions, driver[r], r, "execute_script", o)
         /\ IF o.exc = "none"
            THEN /\ final_data' = [final_data EXCEPT ![r] = EmptyDict]
                 /\ pc' = [pc EXCEPT ![r] = "get"]
                 /\ UNCHANGED <<raised, response>>
            ELSE /\ Escapes(r, "patch", o)
                 /\ UNCHANGED final_data
    /\ UNCHANGED <<args, email, driver, idx, web>>
    /\ UNCHANGED extract_vars

\* Lines 91-94: the except clauses of the try.
except_clause(fd, o) ==
    IF o.exc = "TimeoutException"
    THEN dict_set(fd, "error", "Process timed out.")
    ELSE dict_set(fd, "error", o.msg)

\* Faulty variant of Caught: a timed-out scan is started over from the
\* navigation instead of ending.
Caught_retry(r, where, o) ==
    /\ raised' = [raised EXCEPT ![r] =
                    [where |-> where, exc |-> o.exc, escaped |-> FALSE]]
    /\ final_data' = [final_data EXCEPT ![r] = except_clause(@, o)]
    /\ pc' = [pc EXCEPT ![r] =
                IF o.exc = "TimeoutException" THEN "get" ELSE "finally"]

\* An exception raised at `where` inside the try: caught, then the finally.
Caught(r, where, o) ==
    /\ raised' = [raised EXCEPT ![r] =
                    [where |-> where, exc |-> o.exc, escaped |-> FALSE]]
    /\ final_data' = [final_data EXCEPT ![r] = except_clause(@, o)]
    /\ pc' = [pc EXCEPT ![r] = "finally"]

\* One driver call of the try body at `here`, going on to `next` when it
\* returns and to the except clauses when it raises one of `excs`.
TryCall(r, here, op, excs, next) ==
    /\ pc[r] = here
    /\ \E o \in {NoExc} \cup excs :
         /\ sessions' = Call(sessions, driver[r], r, op, o)
         /\ IF o.exc = "none"
            THEN /\ pc' = [pc EXCEPT ![r] = next]
                 /\ UNCHANGED <<raised, final_data>>
            ELSE Caught(r, here, o)
    /\ UNCHANGED <<args, email, driver, idx, response, web>>
    /\ UNCHANGED extract_vars

\* Line 66: driver.get (a page-load timeout is a TimeoutException).
Get(r) == TryCall(r, "get", "get", {TimeoutExc} \cup DriverErrors, "wait_input")

\* Line 68: up to 20 s for the input field.
WaitInput(r) ==
    TryCall(r, "wait_input", "wait_input", {TimeoutExc} \cup DriverErrors, "wait_submit")

\* Line 69: up to 20 s for the submit button.
WaitSubmit(r) ==
    TryCall(r, "wait_submit", "wait_submit", {TimeoutExc} \cup DriverErrors, "send_keys")

\* Lines 70-71: type the e-mail, sleep 0.5 s.
SendKeys(r) == TryCall(r, "send_keys", "send_keys", DriverErrors, "click")

\* Line 72: submit.
Click(r) == TryCall(r, "click", "click", DriverErrors, "wait_url")

\* Faulty variant of WaitUrl: the wait's exception is swallowed and the scan
\* goes on to the extraction whether or not the URL changed.
WaitUrl_swallowed(r) ==
    /\ pc[r] = "wait_url"
    /\ \E o \in {NoExc, TimeoutExc} \cup DriverErrors :
         sessions' = Call(sessions, driver[r], r, "wait_url", o)
    /\ pc' = [pc EXCEPT ![r] = "settle"]
    /\ UNCHANGED <<args, email, driver, final_data, idx, response, raised, web>>
    /\ UNCHANGED extract_vars

\* Line 73: up to 60 s for the URL to contain /scans/.
WaitUrl(r) ==
    TryCall(r, "wait_url", "wait_url", {TimeoutExc} \cup DriverErrors, "settle")

\* Lines 74-86: sleep 10 s, final_data['email'] = email, the loop starts.
Settle(r) ==
    /\ pc[r] = "settle"
    /\ final_data' = [final_data EXCEPT ![r] = dict_set(@, "email", email[r])]
    /\ idx' = [idx EXCEPT ![r] = 1]
    /\ pc' = [pc EXCEPT ![r] = "scrape"]
    /\ UNCHANGED <<args, email, driver, response, raised, sessions, web>>
    /\ UNCHANGED extract_vars

\* Faulty variant of store_section: the result stored under the card's DOM id.
store_section_by_card_id(fd, card, results) == dict_set(fd, card.card_id, results)

\* Line 89: final_data[key] = the card's results.
store_section(fd, card, results) == dict_set(fd, card.key, results)

\* Lines 88-89: one iteration of the loop over cards_to_scrape. The reads of
\* the DOM may fail with a driver error that scrape_card_data does not catch.
Scrape(r) ==
    /\ pc[r] = "scrape"
    /\ LET card == cards_to_scrape[idx[r]]
           got == scrape_card_data(web[driver[r]], card.card_id, card.card_title)
       IN  \E o \in {NoExc} \cup DriverErrors :
             LET out == IF o.exc # "none" THEN o
                        ELSE [exc |-> got.exc, msg |-> "Message: no such element"]
             IN  /\ sessions' = Call(sessions, driver[r], r, "scrape", out)
                 /\ IF out.exc = "none"
                    THEN /\ final_data' = [final_data EXCEPT ![r] =
                                             store_section(@, card, got.results)]
                         /\ idx' = [idx EXCEPT ![r] = @ + 1]
                         /\ pc' = [pc EXCEPT ![r] =
                                     IF idx[r] = NumCards THEN "finally" ELSE "scrape"]
                         /\ UNCHANGED raised
                    ELSE /\ Caught(r, "scrape", out)
                         /\ UNCHANGED idx
    /\ UNCHANGED <<args, email, driver, response, web>>
    /\ UNCHANGED extract_vars

\* Lines 95-98 and 121: driver.quit(), return final_data, answer 200.
Finally(r) ==
    /\ pc[r] = "finally"
    /\ sessions' = Quit(sessions, driver[r], r)
    /\ response' = [response EXCEPT ![r] = Respond(200, final_data[r])]
    /\ pc' = [pc EXCEPT ![r] = "done"]
    /\ UNCHANGED <<args, email, driver, final_data, idx, raised, web>>
    /\ UNCHANGED extract_vars

\* One call of scrape_card_data on the card xcard describes.
Extract ==
    /\ xpc = "in"
    /\ LET page == [c \in {"card"} |->
                      [present |-> xcard.present, spans |-> xcard.spans]]
       IN  xout' = scrape_card_data(page, "card", xcard.card_title).results
    /\ xpc' = "out"
    /\ UNCHANGED xcard
    /\ UNCHANGED scan_vars

\* ------------------------------------------------------- specifications
Step(r) ==
    \/ ScanEmail(r)
    \/ Acquire(r)
    \/ Patch(r)
    \/ Get(r)
    \/ WaitInput(r)
    \/ WaitSubmit(r)
    \/ SendKeys(r)
    \/ Click(r)
    \/ WaitUrl(r)
    \/ Settle(r)
    \/ Scrape(r)
    \/ Finally(r)

Next == \E r \in Scans : Step(r)

Spec == Init /\ [][Next]_vars

SpecConc == InitConc /\ [][Next]_vars

NextExtract == Extract

SpecExtract == InitExtract /\ [][NextExtract]_vars

\* ------------------------------------------------ vocabulary of the claims
HasChar(s, c) == \E i \in 1..Len(s) : s[i] = c
WellFormed(e) == e # None /\ Len(e) > 0 /\ HasChar(e, "@") /\ HasChar(e, ".")

\* The driver calls `op` recorded on the session of scan r.
CallsOf(r, op) ==
    IF driver[r] = 0 THEN <<>>
    ELSE SelectSeq(sessions[driver[r]].log, LAMBDA c : c.op = op)

QuitCount(s) == Len(SelectSeq(sessions[s].log, LAMBDA c : c.op = "quit"))

SectionKeysIn(d) == (DOMAIN d) \ {"email", "error"}
WaitSteps == {"wait_input", "wait_submit", "wait_url"}

\* C1: every scan that acquired a browser session has quit it exactly once
\* by the time its request is answered, whichever way the scan ended.
C1_ReleasedExactlyOnce ==
    \A s \in Launched(sessions) :
        pc[sessions[s].owner] = "done" => QuitCount(s) = 1 /\ ~ sessions[s].alive

\* C2: when one of the three waits times out the scan's result is exactly
\* {email: the input, error: "Process timed out."}, with no section key.
C2_TimeoutResultExact ==
    \A r \in Scans :
        (/\ pc[r] = "done"
         /\ raised[r].exc = "TimeoutException"
         /\ raised[r].where \in WaitSteps)
        => /\ DOMAIN final_data[r] = {"email", "error"}
           /\ final_data[r]["email"] = args[r]
           /\ final_data[r]["error"] = "Process timed out."
           /\ response[r].body = final_data[r]

\* C3: the i-th extraction of a scan, when section i's container is absent
\* from the page, raises nothing of its own (the call ends in no
\* NoSuchElementException), and once it has returned the result maps the
\* section's key to the empty sequence and the loop has moved on to the next
\* section; a scan that ends without an exception holds all 8 section keys.
C3_AbsentSectionEmpty ==
    \A r \in Scans : \A i \in 1..NumCards :
        LET card == cards_to_scrape[i]
            calls == CallsOf(r, "scrape")
        IN  (Len(calls) >= i /\ ~ web[driver[r]][card.card_id].present)
            => /\ calls[i].exc # "NoSuchElementException"
               /\ calls[i].exc = "none"
                  => /\ card.key \in DOMAIN final_data[r]
                     /\ final_data[r][card.key] = <<>>
                     /\ idx[r] > i
                     /\ (i < NumCards /\ Len(calls) = i) => pc[r] = "scrape"
                     /\ (Len(calls) = i /\ raised[r].where = "none")
                        => "error" \notin DOMAIN final_data[r]
                     /\ (pc[r] = "done" /\ raised[r].where = "none")
                        => SectionKeysIn(response[r].body) = SectionKeys

\* C3 witness: the page with only the breaches container, scanned to the end:
\* all 8 section keys, 7 of them empty.
C3_Witness ==
    /\ pc[1] = "done"
    /\ web[1] = PageOf(1, {"breaches"})
    /\ response[1].status = 200
    /\ DOMAIN response[1].body = {"email"} \cup SectionKeys
    /\ response[1].body["data_breaches"] = <<Finding(1)>>
    /\ \A k \in SectionKeys \ {"data_breaches"} : response[1].body[k] = <<>>

\* C4 vocabulary: the trimmed text of s (from its first to its last character
\* that is not whitespace), and the texts the claim keeps, stated on
\* characters and positions.
Inked(s) == {i \in 1..Len(s) : s[i] \notin Whitespace}

TrimOf(s) ==
    IF Inked(s) = {} THEN <<>>
    ELSE LET first == CHOOSE i \in Inked(s) : \A j \in Inked(s) : i <= j
             last == CHOOSE i \in Inked(s) : \A j \in Inked(s) : j <= i
         IN  [k \in 1..(last - first + 1) |-> s[first + k - 1]]

IsPlaceholder(t) ==
    \/ \E i \in 1..(Len(t) - 2) : t[i] = "N" /\ t[i + 1] = "o" /\ t[i + 2] = " "
    \/ \E i \in 1..(Len(t) - 7) :
         /\ t[i] = " " /\ t[i + 1] = "L" /\ t[i + 2] = "o" /\ t[i + 3] = "c"
         /\ t[i + 4] = "a" /\ t[i + 5] = "t" /\ t[i + 6] = "e" /\ t[i + 7] = "d"

Wanted(t, title) == Len(t) > 0 /\ t # title /\ ~ IsPlaceholder(t)

\* C4: for a container that is present, scrape_card_data returns exactly the
\* trimmed texts of the spans that are non-empty, differ from the heading and
\* match no placeholder pattern, in document order: the k-th output is the
\* trimmed text of the k-th such span.
C4_ExtractExact ==
    (xpc = "out" /\ xcard.present) =>
        LET spans == xcard.spans
            K == {i \in 1..Len(spans) : Wanted(TrimOf(spans[i]), xcard.card_title)}
        IN  /\ Len(xout) = Cardinality(K)
            /\ \A i \in K :
                 xout[Cardinality({j \in K : j <= i})] = TrimOf(spans[i])
            /\ \A k \in 1..Len(xout) : Wanted(xout[k], xcard.card_title)

\* C4 witness: two spans, one dropped and the other kept after trimming.
C4_Witness ==
    /\ xpc = "out"
    /\ xcard.present
    /\ Len(xcard.spans) = 2
    /\ Len(xout) = 1
    /\ xout[1] \notin {xcard.spans[1], xcard.spans[2]}

\* C5: every result returned for a well-formed e-mail carries an email field
\* equal to the input, on the success, timeout and failure paths alike.
C5_EmailEchoed ==
    \A r \in Scans :
        (pc[r] = "done" /\ WellFormed(args[r]) /\ response[r].status = 200)
        => /\ "email" \in DOMAIN response[r].body
           /\ response[r].body["email"] = args[r]

\* C6: every failure after the session was acquired is caught in the scan
\* routine and returned as a result with the error field set; only a failure
\* of the acquisition itself escapes.
C6_FailuresFolded ==
    \A r \in Scans :
        (raised[r].where \notin {"none", "acquire"})
        => /\ ~ raised[r].escaped
           /\ pc[r] = "done"
              => /\ response[r].status = 200
                 /\ "error" \in DOMAIN response[r].body

\* C7: a missing or empty email parameter is answered 400 "Email parameter is
\* required"; a value with neither '@' nor '.' is answered 400 "Invalid email
\* format".
C7_ValidationAnswers ==
    \A r \in Scans :
        pc[r] = "done" =>
          /\ (args[r] = None \/ Len(args[r]) = 0)
             => response[r] = [status |-> 400,
                               body |-> [error |-> "Email parameter is required"]]
          /\ (/\ args[r] # None
              /\ Len(args[r]) > 0
              /\ ~ HasChar(args[r], "@")
              /\ ~ HasChar(args[r], "."))
             => response[r] = [status |-> 400,
                               body |-> [error |-> "Invalid email format"]]

\* C7 witness: the request email=not-an-email has been answered.
C7_Witness ==
    /\ pc[1] = "done"
    /\ args[1] = NotAnEmail
    /\ response[1].status = 400

\* C8: a well-formed request whose session was acquired is answered 200, scan
\* failures included; 400 answers only malformed requests and 500 only
\* failures that escaped the scan; every answer has a body.
C8_StatusCodes ==
    \A r \in Scans :
        pc[r] = "done" =>
          /\ (WellFormed(args[r]) /\ driver[r] # 0) => response[r].status = 200
          /\ response[r].status = 400 => ~ WellFormed(args[r])
          /\ response[r].status = 500 => raised[r].escaped
          /\ response[r].status \in {200, 400, 500}

ScanOrder ==
    <<"Chrome", "execute_script", "get", "wait_input", "wait_submit",
      "send_keys", "click", "wait_url">>
    \o [i \in 1..NumCards |-> "scrape"]

BeforeQuit(log) == SelectSeq(log, LAMBDA c : c.op # "quit")
IndexOf(log, op) == {i \in 1..Len(log) : log[i].op = op}

\* C11: the driver calls of a scan follow the code's order. The calls before
\* the quit are a prefix of: launch, patch, navigation, wait for the input,
\* wait for the submit control, send_keys, click, wait for /scans/, then the 8
\* extractions one by one; each call is made only after the one before it
\* returned, so the e-mail is typed and submitted only after both waits
\* succeeded and a section is extracted only after the URL wait succeeded
\* (and line 76 ran, after the settle delay); the quit comes last, after the
\* 8th extraction or after the call that raised.
C11_StepsInOrder ==
    \A s \in Launched(sessions) :
        LET log == sessions[s].log
            body == BeforeQuit(log)
        IN  /\ Len(body) <= Len(ScanOrder)
            /\ \A i \in 1..Len(body) : body[i].op = ScanOrder[i]
            /\ \A i \in 1..(Len(body) - 1) : body[i].exc = "none"
            /\ \A i \in IndexOf(log, "quit") :
                 /\ i = Len(log)
                 /\ i > 1
                 /\ \/ log[i - 1].exc # "none"
                       /\ "error" \in DOMAIN final_data[sessions[s].owner]
                    \/ Len(body) = Len(ScanOrder)
            /\ \A i \in IndexOf(log, "send_keys") \cup IndexOf(log, "click") :
                 /\ \E j \in 1..(i - 1) : log[j].op = "wait_input" /\ log[j].exc = "none"
                 /\ \E j \in 1..(i - 1) : log[j].op = "wait_submit" /\ log[j].exc = "none"
            /\ \A i \in IndexOf(log, "wait_input") :
                 \E j \in 1..(i - 1) : log[j].op = "get" /\ log[j].exc = "none"
            /\ \A i \in IndexOf(log, "scrape") :
                 /\ \E j \in 1..(i - 1) : log[j].op = "wait_url" /\ log[j].exc = "none"
                 /\ "email" \in DOMAIN final_data[sessions[s].owner]

\* C11 witness: a scan made every call of the order and then quit.
C11_Witness ==
    /\ pc[1] = "done"
    /\ Len(sessions[1].log) = Len(ScanOrder) + 1
    /\ sessions[1].log[Len(ScanOrder) + 1].op = "quit"
    /\ response[1].status = 200

\* C12 vocabulary: the calls `op` scan r made, on whichever session.
CallsBy(r, op) ==
    {<<s, i>> \in Scans \X (1..(Len(ScanOrder) + 2)) :
        /\ i <= Len(sessions[s].log)
        /\ sessions[s].log[i].op = op
        /\ sessions[s].log[i].by = r}

\* C12: a scan is never retried. A request launches at most one browser,
\* navigates at most once and submits at most once; after a wait timed out the
\* only further call on the session is its quit, and the request is then
\* answered with the error result "Process timed out.".
C12_NeverRetried ==
    /\ \A r \in Scans :
         /\ Cardinality(CallsBy(r, "Chrome")) <= 1
         /\ Cardinality(CallsBy(r, "get")) <= 1
         /\ Cardinality(CallsBy(r, "click")) <= 1
    /\ \A s \in Launched(sessions) :
         LET log == sessions[s].log
         IN  /\ Len(log) <= Len(ScanOrder) + 1
             /\ \A i \in 1..Len(log) :
                  (log[i].op \in WaitSteps /\ log[i].exc = "TimeoutException")
                  => /\ \A j \in (i + 1)..Len(log) : j = i + 1 /\ log[j].op = "quit"
                     /\ pc[sessions[s].owner] = "done"
                        => /\ Len(log) = i + 1
                           /\ response[sessions[s].owner].status = 200
                           /\ response[sessions[s].owner].body["error"]
                                = "Process timed out."
                           /\ SectionKeysIn(response[sessions[s].owner].body) = {}

\* C12 witness: the wait for /scans/ timed out, the session was quit and the
\* request answered.
C12_Witness ==
    /\ pc[1] = "done"
    /\ raised[1] = [where |-> "wait_url", exc |-> "TimeoutException", escaped |-> FALSE]
    /\ sessions[1].log[Len(sessions[1].log)].op = "quit"
    /\ sessions[1].log[Len(sessions[1].log) - 1].op = "wait_url"

\* C13 vocabulary: scan r has reached the acquisition or gone past it.
PastValidation(r) ==
    \/ pc[r] \notin {"off", "request", "done"}
    \/ driver[r] # 0
    \/ CallsBy(r, "Chrome") # {}
    \/ raised[r].where # "none"
    \/ response[r].status \in {200, 500}

\* C13: validation gates acquisition. A request whose email is missing, empty,
\* without '@' or without '.' is answered 400 with no browser launched and no
\* driver bound; only a request whose email is non-empty and holds both '@'
\* and '.' gets as far as launching one.
C13_ValidationGatesAcquisition ==
    \A r \in Scans :
        /\ PastValidation(r) => WellFormed(args[r])
        /\ (pc[r] = "done" /\ ~ WellFormed(args[r]))
           => /\ response[r].status = 400
              /\ driver[r] = 0
              /\ CallsBy(r, "Chrome") = {}
              /\ Launched(sessions) = {}

\* C13 witness: a request whose email has '@' but no '.' was answered 400 with
\* no browser launched.
C13_Witness ==
    /\ pc[1] = "done"
    /\ args[1] = <<"a", "@">>
    /\ response[1].status = 400
    /\ Launched(sessions) = {}

====
